---- MODULE Spec2Model ----
(***************************************************************************)
(* A model of app/database/sqlite/sqlite.py: the Sqlite3DataModule engine, *)
(* its TableAccessor facades and the embedded store it drives.             *)
(*                                                                         *)
(* Values are written as SQL literals: "NULL", the integers "1", "2", ...  *)
(* and the quoted texts "'a'", "'1'", ...  A Python dict is a sequence of  *)
(* <<key, value>> pairs in insertion order.                                *)
(***************************************************************************)
EXTENDS Integers, Sequences, FiniteSets, TLC

VARIABLES
    conn,             \* self._conn: 0 is None, k > 0 is the k-th connection object
    opened,           \* how many connection objects sqlite3.connect has made
    disk,             \* the database file: its committed content
    work,             \* the content as the open connection sees it (pending writes included)
    last_insert_rowid,\* the rowid of the connection's last successful INSERT
    cursor,           \* self._cursor: the one cursor every statement runs on
    tables,           \* self._tables: name -> TableConfig
    table_accessors,  \* self._table_accessors: name -> TableAccessor (its identity)
    write_lock,       \* _write_lock: 0 is free, t > 0 is the caller that holds it
    pc,               \* each parallel caller's position inside its call
    call,             \* each parallel caller's call in progress
    result_set,       \* the QueryResult a caller keeps: <<>> is none, <<qr>> is qr
    ret               \* what the last finished call returned or raised

vars == <<conn, opened, disk, work, last_insert_rowid, cursor, tables, table_accessors,
          write_lock, pc, call, result_set, ret>>

-----------------------------------------------------------------------------
(* Bounds of the model *)

MaxId == 2          \* rowids the store hands out before the model stops inserting
MaxOpens == 2       \* connections one engine opens before the model stops connecting
NumCallers == 2     \* parallel callers

-----------------------------------------------------------------------------
(* Values *)

NULL == "NULL"
IntLit == <<"1", "2", "3", "4", "5", "6", "7", "8", "9">>
TxtLit == <<"'1'", "'2'", "'3'", "'4'", "'5'", "'6'", "'7'", "'8'", "'9'">>

Range(s) == {s[i] : i \in DOMAIN s}
Max(S) == IF S = {} THEN 0 ELSE CHOOSE x \in S : \A y \in S : y <= x
Min2(a, b) == IF a <= b THEN a ELSE b

\* the literal of a count, which may be zero
CountLit(n) == IF n = 0 THEN "0" ELSE IntLit[n]

IsInt(v) == v \in Range(IntLit)
IsNumText(v) == v \in Range(TxtLit)
IndexIn(s, v) == CHOOSE i \in DOMAIN s : s[i] = v
IntOf(v) == IF v = "0" THEN 0 ELSE IndexIn(IntLit, v)

\* The store converts a value to the declared type of its column when it can:
\* an integer stored in a VARCHAR column becomes its text, a text that reads as
\* an integer stored in an INTEGER column becomes that integer.
Affinity(type, v) ==
    IF type = "VARCHAR" /\ IsInt(v) THEN TxtLit[IndexIn(IntLit, v)]
    ELSE IF type = "INTEGER" /\ IsNumText(v) THEN IntLit[IndexIn(TxtLit, v)]
    ELSE v

Keys(d) == [i \in DOMAIN d |-> d[i][1]]
Values(d) == [i \in DOMAIN d |-> d[i][2]]
KeySet(d) == {d[i][1] : i \in DOMAIN d}
Get(d, k) == d[CHOOSE i \in DOMAIN d : d[i][1] = k][2]

-----------------------------------------------------------------------------
(* TableConfig *)

TableConfig(name, columns, primary_key, auto_increment) ==
    [name |-> name, columns |-> columns, primary_key |-> primary_key,
     auto_increment |-> auto_increment]

\* schema.py's TASK_DB_CONFIG, with its first three columns
TASK_DB_CONFIG ==
    TableConfig("task",
                << <<"id", "INTEGER">>, <<"name", "VARCHAR">>, <<"priority", "INTEGER">> >>,
                "id", TRUE)

NOTE_DB_CONFIG ==
    TableConfig("note", << <<"id", "INTEGER">>, <<"name", "VARCHAR">> >>, "id", FALSE)

\* another descriptor of the name note, with one more column
NOTE_V2_CONFIG ==
    TableConfig("note",
                << <<"id", "INTEGER">>, <<"name", "VARCHAR">>, <<"priority", "INTEGER">> >>,
                "id", FALSE)

\* a descriptor whose name is an SQL keyword
ORDER_DB_CONFIG ==
    TableConfig("order", << <<"id", "INTEGER">>, <<"name", "VARCHAR">> >>, "id", TRUE)

ColDef(name, type, pk, autoinc) ==
    [name |-> name, type |-> type, pk |-> pk, autoinc |-> autoinc]

\* a column list that names every declared column, the primary key too
OtherColsAll(columns, primary_key) ==
    [i \in DOMAIN columns |-> ColDef(columns[i][1], columns[i][2], FALSE, FALSE)]

RECURSIVE OtherCols(_, _)
OtherCols(columns, primary_key) ==
    IF columns = <<>> THEN <<>>
    ELSE LET c == Head(columns)
             rest == OtherCols(Tail(columns), primary_key)
         IN IF c[1] # primary_key
            THEN <<ColDef(c[1], c[2], FALSE, FALSE)>> \o rest
            ELSE rest


\* TableConfig.get_create_sql: the primary key first, then every other column in
\* declaration order, in a CREATE TABLE IF NOT EXISTS statement
PkType(cfg) ==
    IF cfg.primary_key \in KeySet(cfg.columns)
    THEN Get(cfg.columns, cfg.primary_key)
    ELSE "INTEGER"

-----------------------------------------------------------------------------
(* Statements, as the engine builds them *)

Stmt(verb, table) ==
    [verb |-> verb, table |-> table, ignore |-> FALSE, cols |-> <<>>,
     coldefs |-> <<>>, set |-> <<>>, hasWhere |-> FALSE, where |-> <<>>,
     order_by |-> "", limit |-> <<>>, offset |-> <<>>]

get_create_sql(cfg) ==
    [Stmt("CREATE TABLE IF NOT EXISTS", cfg.name) EXCEPT
        !.coldefs =
            (IF cfg.auto_increment
             THEN <<ColDef(cfg.primary_key, "INTEGER", TRUE, TRUE)>>
             ELSE <<ColDef(cfg.primary_key, PkType(cfg), TRUE, FALSE)>>)
            \o OtherCols(cfg.columns, cfg.primary_key)]

-----------------------------------------------------------------------------
(* The embedded store: what a statement does to a database content *)

NoTables == [n \in {} |-> 0]
NoFile == [exists |-> FALSE, tables |-> NoTables, sqlite_sequence |-> FALSE]
EmptyFile == [exists |-> TRUE, tables |-> NoTables, sqlite_sequence |-> FALSE]

ColNames(T) == [i \in DOMAIN T.coldefs |-> T.coldefs[i].name]
ColSet(T) == Range(ColNames(T))
ColOf(T, c) == T.coldefs[CHOOSE i \in DOMAIN T.coldefs : T.coldefs[i].name = c]
PkName(T) == T.coldefs[CHOOSE i \in DOMAIN T.coldefs : T.coldefs[i].pk].name
IsAutoInc(T) == \E i \in DOMAIN T.coldefs : T.coldefs[i].autoinc
NonPk(T) == ColSet(T) \ {PkName(T)}

\* the value of column c in the row stored under rowid id
Cell(T, id, c) == IF c = PkName(T) THEN IntLit[id] ELSE T.rows[id][c]

\* a WHERE whose equalities are joined by OR
MatchesAny(T, id, keys, vals) ==
    \E i \in DOMAIN keys :
        /\ vals[i] # NULL
        /\ Cell(T, id, keys[i]) = Affinity(ColOf(T, keys[i]).type, vals[i])

\* a WHERE of equalities joined by AND; a NULL never equals anything
Matches(T, id, keys, vals) ==
    \A i \in DOMAIN keys :
        /\ vals[i] # NULL
        /\ Cell(T, id, keys[i]) = Affinity(ColOf(T, keys[i]).type, vals[i])

Matching(T, keys, vals) == {id \in DOMAIN T.rows : Matches(T, id, keys, vals)}

RECURSIVE Sorted(_)
Sorted(S) ==
    IF S = {} THEN <<>>
    ELSE LET m == CHOOSE x \in S : \A y \in S : x <= y
         IN <<m>> \o Sorted(S \ {m})

\* LIMIT n: limit is <<>> when the statement has no LIMIT and <<n>> when it has;
\* a negative n is no limit
Take(s, limit) ==
    IF limit = <<>> THEN s
    ELSE IF limit[1] < 0 THEN s
    ELSE SubSeq(s, 1, Min2(limit[1], Len(s)))

\* OFFSET m: offset is <<>> when the statement has no OFFSET and <<m>> when it
\* has; a negative m skips nothing
Skip(s, offset) ==
    IF offset = <<>> THEN s
    ELSE IF offset[1] <= 0 THEN s
    ELSE SubSeq(s, offset[1] + 1, Len(s))

Reverse(s) == [i \in DOMAIN s |-> s[Len(s) + 1 - i]]

\* ORDER BY e on the rowids in rising order: "id DESC" turns them round, "id"
\* and no ORDER BY leave them
Ordered(s, order_by) == IF order_by = "id DESC" THEN Reverse(s) ELSE s

\* the columns an ORDER BY expression names
OrderCols(order_by) == IF order_by = "" THEN {} ELSE {"id"}

Result(err, db, lr) ==
    [err |-> err, db |-> db, rows |-> <<>>, description |-> <<>>,
     rowcount |-> -1, lastrowid |-> lr]

Fail(err, db, lr) == Result(err, db, lr)

WithTable(db, t, T) ==
    [db EXCEPT !.tables = [n \in DOMAIN db.tables \cup {t} |->
                              IF n = t THEN T ELSE db.tables[n]]]

WithoutTable(db, t) ==
    [db EXCEPT !.tables = [n \in DOMAIN db.tables \ {t} |-> db.tables[n]]]

NextRowid(T) ==
    IF IsAutoInc(T) THEN Max(DOMAIN T.rows \cup {T.seq}) + 1
    ELSE Max(DOMAIN T.rows) + 1

\* the names the store reads as keywords, which it refuses as a table name
Keywords == {"order"}

\* a CREATE that makes the table anew when it is there already
RunCreateAnew(db, lr, s) ==
    Result("ok",
           WithTable(db, s.table, [coldefs |-> s.coldefs, rows |-> NoTables, seq |-> 0]),
           lr)

RunCreate(db, lr, s) ==
    IF s.table \in Keywords THEN Fail("syntax error", db, lr)
    ELSE IF s.table \in DOMAIN db.tables THEN Result("ok", db, lr)
    ELSE Result("ok",
                [WithTable(db, s.table,
                           [coldefs |-> s.coldefs, rows |-> NoTables, seq |-> 0])
                 EXCEPT !.sqlite_sequence =
                    db.sqlite_sequence
                    \/ \E i \in DOMAIN s.coldefs : s.coldefs[i].autoinc],
                lr)

RunDrop(db, lr, s) ==
    IF s.table \in DOMAIN db.tables THEN Result("ok", WithoutTable(db, s.table), lr)
    ELSE Result("ok", db, lr)

RunInsert(db, lr, s, params) ==
    IF Len(s.cols) = 0 THEN Fail("syntax error", db, lr)
    ELSE IF s.table \notin DOMAIN db.tables THEN Fail("no such table", db, lr)
    ELSE LET T == db.tables[s.table] IN
    IF \E c \in Range(s.cols) : c \notin ColSet(T) THEN Fail("no such column", db, lr)
    ELSE IF Len(params) # Len(s.cols) THEN Fail("incorrect number of bindings", db, lr)
    ELSE LET val(c) == params[IndexIn(s.cols, c)]
             given == IF PkName(T) \in Range(s.cols)
                      THEN Affinity("INTEGER", val(PkName(T)))
                      ELSE NULL
         IN
    IF given # NULL /\ ~IsInt(given) THEN Fail("datatype mismatch", db, lr)
    ELSE LET id == IF given = NULL THEN NextRowid(T) ELSE IntOf(given)
             row == [c \in NonPk(T) |->
                        IF c \in Range(s.cols)
                        THEN Affinity(ColOf(T, c).type, val(c))
                        ELSE NULL]
         IN
    IF id \in DOMAIN T.rows
    THEN IF s.ignore
         THEN [Result("ok", db, lr) EXCEPT !.rowcount = 0]
         ELSE Fail("UNIQUE constraint failed", db, lr)
    ELSE [Result("ok",
                 WithTable(db, s.table,
                     [T EXCEPT !.rows = [i \in DOMAIN T.rows \cup {id} |->
                                            IF i = id THEN row ELSE T.rows[i]],
                               !.seq = IF IsAutoInc(T) THEN Max({T.seq, id}) ELSE T.seq]),
                 id)
          EXCEPT !.rowcount = 1]

\* UPDATE t SET c = ?, ... WHERE k = ? AND ...: params are the SET values and
\* then the WHERE values.  The inputs never SET the primary key.
RunUpdate(db, lr, s, params) ==
    IF Len(s.set) = 0 \/ (s.hasWhere /\ Len(s.where) = 0)
    THEN Fail("syntax error", db, lr)
    ELSE IF s.table \notin DOMAIN db.tables THEN Fail("no such table", db, lr)
    ELSE LET T == db.tables[s.table] IN
    IF \E c \in Range(s.set) \cup Range(s.where) : c \notin ColSet(T)
    THEN Fail("no such column", db, lr)
    ELSE LET setv == SubSeq(params, 1, Len(s.set))
             wherev == SubSeq(params, Len(s.set) + 1, Len(params))
             hit == Matching(T, s.where, wherev)
             new(id) == [c \in NonPk(T) |->
                            IF c \in Range(s.set)
                            THEN Affinity(ColOf(T, c).type, setv[IndexIn(s.set, c)])
                            ELSE T.rows[id][c]]
         IN [Result("ok",
                    WithTable(db, s.table,
                        [T EXCEPT !.rows = [i \in DOMAIN T.rows |->
                                               IF i \in hit THEN new(i) ELSE T.rows[i]]]),
                    lr)
             EXCEPT !.rowcount = Cardinality(hit)]

RunDelete(db, lr, s, params) ==
    IF s.hasWhere /\ Len(s.where) = 0 THEN Fail("syntax error", db, lr)
    ELSE IF s.table \notin DOMAIN db.tables THEN Fail("no such table", db, lr)
    ELSE LET T == db.tables[s.table] IN
    IF \E c \in Range(s.where) : c \notin ColSet(T)
    THEN Fail("no such column", db, lr)
    ELSE LET hit == IF s.hasWhere THEN Matching(T, s.where, params) ELSE DOMAIN T.rows
         IN [Result("ok",
                    WithTable(db, s.table,
                        [T EXCEPT !.rows = [i \in DOMAIN T.rows \ hit |-> T.rows[i]]]),
                    lr)
             EXCEPT !.rowcount = Cardinality(hit)]

\* SELECT cols FROM t [WHERE ...] [ORDER BY e] [LIMIT n] [OFFSET m]: rows in
\* rowid order without ORDER BY; OFFSET without LIMIT is no statement
RunSelect(db, lr, s, params) ==
    IF Len(s.cols) = 0 \/ (s.hasWhere /\ Len(s.where) = 0)
       \/ (s.offset # <<>> /\ s.limit = <<>>)
    THEN Fail("syntax error", db, lr)
    ELSE IF s.table \notin DOMAIN db.tables THEN Fail("no such table", db, lr)
    ELSE LET T == db.tables[s.table]
             out == IF s.cols = <<"*">> THEN ColNames(T) ELSE s.cols
         IN
    IF \E c \in Range(out) \cup Range(s.where) \cup OrderCols(s.order_by) : c \notin ColSet(T)
    THEN Fail("no such column", db, lr)
    ELSE LET hit == IF s.hasWhere THEN Matching(T, s.where, params) ELSE DOMAIN T.rows
             ids == Take(Skip(Ordered(Sorted(hit), s.order_by), s.offset), s.limit)
         IN [Result("ok", db, lr) EXCEPT
                !.rows = [i \in DOMAIN ids |->
                             [j \in DOMAIN out |-> Cell(T, ids[i], out[j])]],
                !.description = out]

\* SELECT COUNT(*) FROM t [WHERE ...]: one row holding the count
RunCount(db, lr, s, params) ==
    IF s.hasWhere /\ Len(s.where) = 0 THEN Fail("syntax error", db, lr)
    ELSE IF s.table \notin DOMAIN db.tables THEN Fail("no such table", db, lr)
    ELSE LET T == db.tables[s.table] IN
    IF \E c \in Range(s.where) : c \notin ColSet(T)
    THEN Fail("no such column", db, lr)
    ELSE LET hit == IF s.hasWhere THEN Matching(T, s.where, params) ELSE DOMAIN T.rows
         IN [Result("ok", db, lr) EXCEPT
                !.rows = << <<CountLit(Cardinality(hit))>> >>,
                !.description = <<"COUNT(*)">>]

\* SELECT name FROM sqlite_master WHERE type='table'
RunMaster(db, lr) ==
    [Result("ok", db, lr) EXCEPT
        !.rows = DOMAIN db.tables
                 \cup (IF db.sqlite_sequence THEN {"sqlite_sequence"} ELSE {}),
        !.description = <<"name">>]

Run(db, lr, s, params) ==
    CASE s.verb = "CREATE TABLE IF NOT EXISTS" -> RunCreate(db, lr, s)
      [] s.verb = "DROP TABLE IF EXISTS" -> RunDrop(db, lr, s)
      [] s.verb = "INSERT" -> RunInsert(db, lr, s, params)
      [] s.verb = "UPDATE" -> RunUpdate(db, lr, s, params)
      [] s.verb = "DELETE" -> RunDelete(db, lr, s, params)
      [] s.verb = "SELECT" -> RunSelect(db, lr, s, params)
      [] s.verb = "SELECT COUNT(*)" -> RunCount(db, lr, s, params)
      [] s.verb = "SELECT name FROM sqlite_master" -> RunMaster(db, lr)
      [] s.verb = "VACUUM" -> Result("ok", db, lr)

\* an executemany that counts the statements it ran, not the rows they wrote
RECURSIVE RunManyCountAll(_, _, _, _, _)
RunManyCountAll(db, lr, s, params_list, done) ==
    IF params_list = <<>>
    THEN [Result("ok", db, lr) EXCEPT !.rowcount = done]
    ELSE LET r == Run(db, lr, s, Head(params_list))
         IN IF r.err # "ok" THEN Fail(r.err, db, lr)
            ELSE RunManyCountAll(r.db, r.lastrowid, s, Tail(params_list), done + 1)

\* cursor.executemany: the statement once per parameter tuple, stopping at the
\* first one the store rejects; the earlier ones stay in the open transaction
RECURSIVE RunMany(_, _, _, _, _)
RunMany(db, lr, s, params_list, done) ==
    IF params_list = <<>>
    THEN [Result("ok", db, lr) EXCEPT !.rowcount = done]
    ELSE LET r == Run(db, lr, s, Head(params_list))
         IN IF r.err # "ok" THEN Fail(r.err, db, lr)
            ELSE RunMany(r.db, r.lastrowid, s, Tail(params_list), done + r.rowcount)


-----------------------------------------------------------------------------
(* QueryResult *)

QueryResult(columns, rows) == [columns |-> columns, rows |-> rows]

\* dict(zip(columns, row)): the labeled record of one row
Labeled(columns, row) ==
    LET n == Min2(Len(columns), Len(row))
    IN [c \in {columns[i] : i \in 1..n} |->
           row[CHOOSE i \in 1..n : columns[i] = c /\ \A j \in 1..n : columns[j] = c => j <= i]]

\* QueryResult.first: <<>> is None, <<r>> is the labeled record r
first(qr) == IF Len(qr.rows) > 0 THEN <<Labeled(qr.columns, qr.rows[1])>> ELSE <<>>

IndexError == "IndexError: out of range"

\* an indexed access that counts a negative index from the end, as a list does
getitem_from_end(qr, index) ==
    LET n == Len(qr.rows)
        i == IF index < 0 THEN index + n ELSE index
    IN IF 0 <= i /\ i < n
       THEN [raised |-> "", value |-> <<Labeled(qr.columns, qr.rows[i + 1])>>]
       ELSE [raised |-> IndexError, value |-> <<>>]

\* the labeled records in the opposite order
to_dict_list_reversed(qr) ==
    [i \in DOMAIN qr.rows |-> Labeled(qr.columns, qr.rows[Len(qr.rows) + 1 - i])]

\* QueryResult.__getitem__, with the first row at index 0: the labeled record,
\* or IndexError for an index below 0 or beyond the last row
getitem(qr, index) ==
    IF 0 <= index /\ index < Len(qr.rows)
    THEN [raised |-> "", value |-> <<Labeled(qr.columns, qr.rows[index + 1])>>]
    ELSE [raised |-> IndexError, value |-> <<>>]

\* QueryResult.to_dict_list, and what __iter__ yields: the labeled records
to_dict_list(qr) == [i \in DOMAIN qr.rows |-> Labeled(qr.columns, qr.rows[i])]

\* a result set that loses its first row to whoever reads it
after_read_draining(qr) ==
    [qr EXCEPT !.rows = IF qr.rows = <<>> THEN <<>> ELSE Tail(qr.rows)]

\* the result set after one of its methods has run: none assigns to rows or
\* columns
after_read(qr) == qr

-----------------------------------------------------------------------------
(* Sqlite3DataModule: the connection *)

NotConnected == "RuntimeError: not connected"
NotRegistered == "AttributeError: table not registered"

\* sqlite3.Connection.commit: the pending writes become the file's content
commit(w, d) == w

\* an except branch that raises again without rolling back
rollback_skipped(w, d) == w

\* sqlite3.Connection.rollback: the connection sees the file's content again
rollback(w, d) == d

\* an _ensure_connection that lets every call through
ensure_connection_skipped(c) == TRUE

\* Sqlite3DataModule._ensure_connection: passes only with a connection
ensure_connection(c) == c # 0

\* a cursor on which nothing ran yet
NewCursor == [rows |-> <<>>, description |-> <<>>, rowcount |-> -1, lastrowid |-> 0]

\* the cursor after cursor.execute: the statement's rows and row count, and
\* the connection's last insert rowid; a rejected statement leaves no rows
\* and the old lastrowid
AfterExecute(cur, r) ==
    IF r.err = "ok"
    THEN [rows |-> r.rows, description |-> r.description, rowcount |-> r.rowcount,
          lastrowid |-> r.lastrowid]
    ELSE [NewCursor EXCEPT !.lastrowid = cur.lastrowid]

\* the cursor after cursor.executemany: the total row count; lastrowid stays
AfterExecutemany(cur, r) ==
    IF r.err = "ok"
    THEN [NewCursor EXCEPT !.rowcount = r.rowcount, !.lastrowid = cur.lastrowid]
    ELSE [NewCursor EXCEPT !.lastrowid = cur.lastrowid]

\* what execute and executemany do with the result r of their statement:
\* commit, or rollback and re-raise.  raised is "" when the call returns the
\* cursor; attempts counts how often the statement was handed to the store.
Settle(r, cur) ==
    IF r.err = "ok"
    THEN [raised |-> "", work |-> r.db, disk |-> commit(r.db, disk),
          lr |-> r.lastrowid, cursor |-> cur, attempts |-> 1]
    ELSE [raised |-> r.err, work |-> rollback(r.db, disk), disk |-> disk,
          lr |-> r.lastrowid, cursor |-> cur, attempts |-> 1]

Refused ==
    [raised |-> NotConnected, work |-> work, disk |-> disk,
     lr |-> last_insert_rowid, cursor |-> cursor, attempts |-> 0]

\* Sqlite3DataModule.execute as one caller runs it
execute(sql, params) ==
    IF ~ensure_connection(conn) THEN Refused
    ELSE LET r == Run(work, last_insert_rowid, sql, params)
         IN Settle(r, AfterExecute(cursor, r))

\* Sqlite3DataModule.executemany as one caller runs it
executemany(sql, params_list) ==
    IF ~ensure_connection(conn) THEN Refused
    ELSE LET r == RunMany(work, last_insert_rowid, sql, params_list, 0)
         IN Settle(r, AfterExecutemany(cursor, r))

\* the model stops inserting when a rowid would pass MaxId
InBounds(db) ==
    \A n \in DOMAIN db.tables :
        /\ db.tables[n].seq <= MaxId
        /\ \A id \in DOMAIN db.tables[n].rows : id <= MaxId

-----------------------------------------------------------------------------
(* What a finished call hands back to its caller *)

NoArgs ==
    [data |-> <<>>, where |-> <<>>, data_list |-> <<>>, ignore |-> FALSE,
     order_by |-> "", limit |-> <<>>, offset |-> <<>>]

Ret(op, table, args, raised, value, attempts) ==
    [op |-> op, table |-> table, args |-> args, raised |-> raised, value |-> value,
     attempts |-> attempts]

\* the variables of the parallel callers and the result set a caller keeps,
\* which a call of a single caller on the engine leaves alone
Sequential == UNCHANGED <<write_lock, pc, call, result_set>>

-----------------------------------------------------------------------------
(* Sqlite3DataModule: registry and facades *)

RegNames == {tables[i][1] : i \in DOMAIN tables}
RegGet(name) == Get(tables, name)

\* self._tables[table_config.name] = table_config: a dict keeps a replaced
\* key at its place and appends a new one
\* a registry that appends every descriptor it is given
PutTableAppend(reg, table_config) == Append(reg, <<table_config.name, table_config>>)

PutTable(reg, table_config) ==
    IF \E i \in DOMAIN reg : reg[i][1] = table_config.name
    THEN [i \in DOMAIN reg |->
             IF reg[i][1] = table_config.name
             THEN <<table_config.name, table_config>>
             ELSE reg[i]]
    ELSE Append(reg, <<table_config.name, table_config>>)

register_table(table_config) ==
    /\ tables' = PutTable(tables, table_config)
    /\ ret' = Ret("register_table", table_config.name, NoArgs, "", 0, 0)
    /\ UNCHANGED <<conn, opened, disk, work, last_insert_rowid, cursor, table_accessors>>
    /\ Sequential

\* a new TableAccessor object: an identity no cached facade has
NewAccessor == Max({table_accessors[n] : n \in DOMAIN table_accessors}) + 1

\* __getattr__ without its look into the cache
getattr_nocache(name) ==
    /\ IF name \in RegNames
       THEN /\ table_accessors' =
                  [n \in DOMAIN table_accessors \cup {name} |->
                      IF n = name THEN NewAccessor ELSE table_accessors[n]]
            /\ ret' = Ret("getattr", name, NoArgs, "", NewAccessor, 0)
       ELSE /\ ret' = Ret("getattr", name, NoArgs, NotRegistered, 0, 0)
            /\ UNCHANGED table_accessors
    /\ UNCHANGED <<conn, opened, disk, work, last_insert_rowid, cursor, tables>>
    /\ Sequential

\* __getattr__ without its look into the registry
getattr_unchecked(name) ==
    /\ IF name \in DOMAIN table_accessors
       THEN /\ ret' = Ret("getattr", name, NoArgs, "", table_accessors[name], 0)
            /\ UNCHANGED table_accessors
       ELSE /\ table_accessors' =
                  [n \in DOMAIN table_accessors \cup {name} |->
                      IF n = name THEN NewAccessor ELSE table_accessors[n]]
            /\ ret' = Ret("getattr", name, NoArgs, "", NewAccessor, 0)
    /\ UNCHANGED <<conn, opened, disk, work, last_insert_rowid, cursor, tables>>
    /\ Sequential

\* Sqlite3DataModule.__getattr__(name), for a name without a leading underscore
getattr(name) ==
    /\ IF name \in DOMAIN table_accessors
       THEN /\ ret' = Ret("getattr", name, NoArgs, "", table_accessors[name], 0)
            /\ UNCHANGED table_accessors
       ELSE IF name \in RegNames
       THEN /\ table_accessors' =
                  [n \in DOMAIN table_accessors \cup {name} |->
                      IF n = name THEN NewAccessor ELSE table_accessors[n]]
            /\ ret' = Ret("getattr", name, NoArgs, "", NewAccessor, 0)
       ELSE /\ ret' = Ret("getattr", name, NoArgs, NotRegistered, 0, 0)
            /\ UNCHANGED table_accessors
    /\ UNCHANGED <<conn, opened, disk, work, last_insert_rowid, cursor, tables>>
    /\ Sequential

-----------------------------------------------------------------------------
(* Sqlite3DataModule: connect, disconnect, tables *)

\* a connect that always starts from an empty file
OpenFileFresh(d) == EmptyFile

\* sqlite3.connect opens the file, creating an empty one when there is none
OpenFile(d) == IF d.exists THEN d ELSE EmptyFile

\* connect without its test for an existing connection
connect_reopen ==
    /\ opened < MaxOpens
    /\ opened' = opened + 1
    /\ conn' = opened + 1
    /\ disk' = OpenFile(disk)
    /\ work' = OpenFile(disk)
    /\ last_insert_rowid' = 0
    /\ cursor' = NewCursor
    /\ ret' = Ret("connect", "", NoArgs, "", conn # 0, 0)
    /\ UNCHANGED <<tables, table_accessors>>
    /\ Sequential

\* the value of the finished call says whether it only logged
\* "already connected"
connect ==
    /\ IF conn # 0
       THEN UNCHANGED <<conn, opened, disk, work, last_insert_rowid, cursor>>
       ELSE /\ opened < MaxOpens
            /\ opened' = opened + 1
            /\ conn' = opened + 1
            /\ disk' = OpenFile(disk)
            /\ work' = OpenFile(disk)
            /\ last_insert_rowid' = 0
            /\ cursor' = NewCursor
    /\ ret' = Ret("connect", "", NoArgs, "", conn # 0, 0)
    /\ UNCHANGED <<tables, table_accessors>>
    /\ Sequential

\* commit, close, and forget the connection and its cursor; the value of the
\* finished call says whether there was a connection to close
disconnect ==
    /\ IF conn # 0
       THEN /\ disk' = commit(work, disk)
            /\ work' = commit(work, disk)
            /\ conn' = 0
            /\ last_insert_rowid' = 0
            /\ cursor' = NewCursor
       ELSE UNCHANGED <<conn, disk, work, last_insert_rowid, cursor>>
    /\ ret' = Ret("disconnect", "", NoArgs, "", conn # 0, 0)
    /\ UNCHANGED <<opened, tables, table_accessors>>
    /\ Sequential

\* what a call that went through execute or executemany leaves behind
Finish(x, op, table, args, value) ==
    /\ InBounds(x.work)
    /\ work' = x.work
    /\ disk' = x.disk
    /\ last_insert_rowid' = x.lr
    /\ cursor' = x.cursor
    /\ ret' = Ret(op, table, args, x.raised, value, x.attempts)
    /\ UNCHANGED <<conn, opened, tables, table_accessors>>
    /\ Sequential

\* an initialization that creates nothing
CreateNone(db, lr, cfgs, issued) == [db |-> db, err |-> "ok", issued |-> issued]

\* the CREATE statements of the registered tables, in registration order, up
\* to the first one the store rejects: the content they leave, the error
\* ("ok" when there is none) and the number of statements issued
RECURSIVE CreateAll(_, _, _, _)
CreateAll(db, lr, cfgs, issued) ==
    IF cfgs = <<>> THEN [db |-> db, err |-> "ok", issued |-> issued]
    ELSE LET r == Run(db, lr, get_create_sql(Head(cfgs)[2]), <<>>)
         IN IF r.err # "ok" THEN [db |-> db, err |-> r.err, issued |-> issued + 1]
            ELSE CreateAll(r.db, lr, Tail(cfgs), issued + 1)

\* sqlite3 begins no transaction for a CREATE statement: outside a transaction
\* the statement is in the file as soon as it has run
autocommit(w, d) == w

\* _initialize_tables: each CREATE on the cursor itself, then one commit; a
\* rejected CREATE is raised again, with neither commit nor rollback
initialize_tables ==
    /\ IF ~ensure_connection(conn)
       THEN /\ ret' = Ret("initialize_tables", "", NoArgs, NotConnected, 0, 0)
            /\ UNCHANGED <<disk, work, cursor>>
       ELSE LET r == CreateAll(work, last_insert_rowid, tables, 0)
            IN /\ work' = r.db
               /\ disk' = IF r.err = "ok" THEN commit(r.db, disk)
                          ELSE autocommit(r.db, disk)
               /\ cursor' = IF tables = <<>> THEN cursor
                            ELSE [NewCursor EXCEPT !.lastrowid = last_insert_rowid]
               /\ ret' = Ret("initialize_tables", "", NoArgs,
                             IF r.err = "ok" THEN "" ELSE r.err, 0, r.issued)
    /\ UNCHANGED <<conn, opened, last_insert_rowid, tables, table_accessors>>
    /\ Sequential

\* DROP TABLE IF EXISTS table
drop_table(table) ==
    LET x == execute(Stmt("DROP TABLE IF EXISTS", table), <<>>)
    IN Finish(x, "drop_table", table, NoArgs, 0)

\* disconnect() without the removal of the file
drop_database_keep_file ==
    /\ conn' = 0
    /\ last_insert_rowid' = 0
    /\ cursor' = NewCursor
    /\ disk' = IF conn # 0 THEN commit(work, disk) ELSE disk
    /\ work' = IF conn # 0 THEN commit(work, disk) ELSE disk
    /\ ret' = Ret("drop_database", "", NoArgs, "",
                [connected |-> conn # 0, removed |-> conn # 0 \/ disk.exists], 0)
    /\ UNCHANGED <<opened, tables, table_accessors>>
    /\ Sequential

\* disconnect(), then os.remove of the file when it exists; the value of the
\* finished call says whether there was a connection to close and a file to
\* remove
drop_database ==
    /\ conn' = 0
    /\ last_insert_rowid' = 0
    /\ cursor' = NewCursor
    /\ disk' = NoFile
    /\ work' = NoFile
    /\ ret' = Ret("drop_database", "", NoArgs, "",
                [connected |-> conn # 0, removed |-> conn # 0 \/ disk.exists], 0)
    /\ UNCHANGED <<opened, tables, table_accessors>>
    /\ Sequential

vacuum ==
    LET x == execute(Stmt("VACUUM", ""), <<>>)
    IN Finish(x, "vacuum", "", NoArgs, 0)

\* the names come back as a list; the model keeps the set of them
get_table_names ==
    LET x == execute(Stmt("SELECT name FROM sqlite_master", ""), <<>>)
    IN Finish(x, "get_table_names", "", NoArgs,
              IF x.raised = "" THEN x.cursor.rows ELSE {})

table_exists(table) ==
    LET x == execute(Stmt("SELECT name FROM sqlite_master", ""), <<>>)
    IN Finish(x, "table_exists", table, NoArgs,
              x.raised = "" /\ table \in x.cursor.rows)

-----------------------------------------------------------------------------
(* Sqlite3DataModule: the CRUD primitives, as one caller runs them *)

\* an INSERT that never says OR IGNORE
InsertSqlNeverIgnore(table, data, ignore_conflict) ==
    [Stmt("INSERT", table) EXCEPT !.cols = Keys(data)]

InsertSql(table, data, ignore_conflict) ==
    [Stmt("INSERT", table) EXCEPT !.ignore = ignore_conflict, !.cols = Keys(data)]

\* returns cursor.lastrowid
insert(table, data, ignore_conflict) ==
    LET x == execute(
                     InsertSql(table, data, ignore_conflict), Values(data))
    IN Finish(x, "insert", table,
              [NoArgs EXCEPT !.data = data, !.ignore = ignore_conflict],
              IF x.raised = "" THEN x.cursor.lastrowid ELSE 0)

\* the columns are the first record's keys; every record gives its values in
\* its own key order.  An empty list returns 0 before anything is executed.
insert_many(table, data_list, ignore_conflict) ==
    LET args == [NoArgs EXCEPT !.data_list = data_list, !.ignore = ignore_conflict]
    IN IF data_list = <<>>
       THEN /\ ret' = Ret("insert_many", table, args, "", 0, 0)
            /\ UNCHANGED <<conn, opened, disk, work, last_insert_rowid, cursor, tables, table_accessors>>
            /\ Sequential
       ELSE LET x == executemany(
                                 InsertSql(table, data_list[1], ignore_conflict),
                                 [i \in DOMAIN data_list |-> Values(data_list[i])])
            IN Finish(x, "insert_many", table, args,
                      IF x.raised = "" THEN x.cursor.rowcount ELSE 0)

\* an UPDATE that writes WHERE only for a non-empty where, as select does
UpdateSqlOptionalWhere(table, data, where) ==
    [Stmt("UPDATE", table) EXCEPT
        !.set = Keys(data), !.hasWhere = where # <<>>, !.where = Keys(where)]

UpdateSql(table, data, where) ==
    [Stmt("UPDATE", table) EXCEPT
        !.set = Keys(data), !.hasWhere = TRUE, !.where = Keys(where)]

\* an update that returns cursor.lastrowid
update_returns_lastrowid(table, data, where) ==
    LET x == execute(
                     UpdateSql(table, data, where), Values(data) \o Values(where))
    IN Finish(x, "update", table, [NoArgs EXCEPT !.data = data, !.where = where],
              IF x.raised = "" THEN x.cursor.lastrowid ELSE 0)

\* UPDATE table SET ... WHERE ...: the WHERE keyword is always written
update(table, data, where) ==
    LET x == execute(
                     UpdateSql(table, data, where), Values(data) \o Values(where))
    IN Finish(x, "update", table, [NoArgs EXCEPT !.data = data, !.where = where],
              IF x.raised = "" THEN x.cursor.rowcount ELSE 0)

\* a DELETE without its WHERE
DeleteSqlNoWhere(table, where) == Stmt("DELETE", table)

DeleteSql(table, where) ==
    [Stmt("DELETE", table) EXCEPT !.hasWhere = TRUE, !.where = Keys(where)]

\* DELETE FROM table WHERE ...: the WHERE keyword is always written
delete(table, where) ==
    LET x == execute(DeleteSql(table, where), Values(where))
    IN Finish(x, "delete", table, [NoArgs EXCEPT !.where = where],
              IF x.raised = "" THEN x.cursor.rowcount ELSE 0)

\* a SELECT that forgets its where
SelectSqlNoWhere(table, columns, where, order_by, limit, offset) ==
    [Stmt("SELECT", table) EXCEPT
        !.cols = IF columns # <<>> THEN columns ELSE <<"*">>,
        !.order_by = order_by,
        !.limit = limit,
        !.offset = offset]

\* SELECT: the columns or *, WHERE only for a non-empty where, LIMIT only
\* for a limit that is not None (limit is <<>> for None), ORDER BY only for a
\* non-empty order_by, OFFSET only for an offset that is not None
SelectSql(table, columns, where, order_by, limit, offset) ==
    [Stmt("SELECT", table) EXCEPT
        !.cols = IF columns # <<>> THEN columns ELSE <<"*">>,
        !.hasWhere = where # <<>>,
        !.where = Keys(where),
        !.order_by = order_by,
        !.limit = limit,
        !.offset = offset]

\* the QueryResult select builds from the cursor
SelectResult(columns, cur) ==
    QueryResult(IF columns # <<>> THEN columns ELSE cur.description, cur.rows)

select(table, columns, where, order_by, limit, offset) ==
    LET x == execute(
                     SelectSql(table, columns, where, order_by, limit, offset),
                     Values(where))
    IN Finish(x, "select", table,
              [NoArgs EXCEPT !.data = columns, !.where = where, !.order_by = order_by,
                             !.limit = limit, !.offset = offset],
              IF x.raised = "" THEN SelectResult(columns, x.cursor)
              ELSE QueryResult(<<>>, <<>>))

\* TableAccessor.select_one: select(where=where, limit=1).first()
select_one(table, where) ==
    LET x == execute(
                     SelectSql(table, <<>>, where, "", <<1>>, <<>>), Values(where))
    IN Finish(x, "select_one", table, [NoArgs EXCEPT !.where = where],
              IF x.raised = "" THEN first(SelectResult(<<>>, x.cursor)) ELSE <<>>)

CountSql(table, where) ==
    [Stmt("SELECT COUNT(*)", table) EXCEPT
        !.hasWhere = where # <<>>, !.where = Keys(where)]

\* cursor.fetchone()[0]
count(table, where) ==
    LET x == execute(CountSql(table, where), Values(where))
    IN Finish(x, "count", table, [NoArgs EXCEPT !.where = where],
              IF x.raised = "" THEN IntOf(x.cursor.rows[1][1]) ELSE 0)

\* TableAccessor.exists: count(where) > 0
exists(table, where) ==
    LET x == execute(CountSql(table, where), Values(where))
    IN Finish(x, "exists", table, [NoArgs EXCEPT !.where = where],
              x.raised = "" /\ IntOf(x.cursor.rows[1][1]) > 0)

\* execute(sql, params) and executemany(sql, params_list) called directly; the
\* caller gets the cursor, of which the model keeps the row count
execute_raw(sql, params) ==
    LET x == execute(sql, params)
    IN Finish(x, "execute", sql.table, [NoArgs EXCEPT !.data = params],
              IF x.raised = "" THEN x.cursor.rowcount ELSE 0)

executemany_raw(sql, params_list) ==
    LET x == executemany(sql, params_list)
    IN Finish(x, "executemany", sql.table, [NoArgs EXCEPT !.data_list = params_list],
              IF x.raised = "" THEN x.cursor.rowcount ELSE 0)

-----------------------------------------------------------------------------
(* The inputs the callers draw from *)

RecA == << <<"name", "'a'">> >>
RecInt == << <<"name", "1">> >>
RecId == << <<"id", "1">>, <<"name", "'b'">> >>
RecPrio == << <<"priority", "1">> >>
RecId2 == << <<"id", "2">>, <<"name", "'a'">> >>

\* order_by, limit and offset of a select; <<>> is None
Page(order_by, limit, offset) == [order_by |-> order_by, limit |-> limit, offset |-> offset]

\* the engine through its life: two names, and few rows
EngineInputs ==
    [configs |-> {TASK_DB_CONFIG, NOTE_DB_CONFIG},
     names |-> {"task", "note"},
     targets |-> {"task"},
     records |-> {RecA},
     flags |-> {FALSE},
     wheres |-> {<< <<"id", "1">> >>},
     updates |-> {<< <<"name", "'b'">> >>},
     lists |-> {<<>>, <<RecA>>},
     pages |-> {Page("id DESC", <<1>>, <<0>>)},
     raw |-> {<<Stmt("SELECT", "missing"), <<>> >>},
     rawmany |-> {<<InsertSql("task", RecA, FALSE), <<Values(RecA)>> >>}]

\* one table and its rows: records of every kind, on a connected engine
CrudInputs ==
    [configs |-> {TASK_DB_CONFIG},
     names |-> {"task"},
     targets |-> {"task"},
     records |-> {<<>>, RecA, RecInt, RecId},
     flags |-> BOOLEAN,
     wheres |-> {<<>>, << <<"name", "'a'">> >>}
                \cup {<< <<"id", IntLit[k]>> >> : k \in 1..MaxId},
     updates |-> {<< <<"name", "'b'">> >>, RecInt},
     lists |-> {<<>>, <<RecA, RecPrio>>, <<RecA, RecInt>>, <<RecId2, RecA>>,
                <<RecId2, RecId>>},
     pages |-> {Page(e, l, o) : e \in {"", "id DESC"},
                                l \in {<<>>, <<1>>, <<MaxId>>},
                                o \in {<<>>, <<0>>, <<1>>, <<MaxId>>}},
     raw |-> {<<Stmt("SELECT", "missing"), <<>> >>},
     rawmany |-> {<<InsertSql("task", RecId2, FALSE), <<Values(RecId2), Values(RecId)>> >>}]

-----------------------------------------------------------------------------
(* The engine after construction, and one caller using it *)

NoCallers == [t \in 1..NumCallers |-> "idle"]
\* what a parallel caller gets from a call: the integer of insert, insert_many,
\* update, delete and count, the truth value of exists, the result set of select
Value(int, bool, result) == [int |-> int, bool |-> bool, result |-> result]
NoValue == Value(0, FALSE, QueryResult(<<>>, <<>>))

NoCall == Ret("", "", NoArgs, "", NoValue, 0)
NoCalls == [t \in 1..NumCallers |-> NoCall]

\* the registry after register_table of each descriptor of the list
RECURSIVE RegisterAll(_, _)
RegisterAll(reg, table_configs) ==
    IF table_configs = <<>> THEN reg
    ELSE RegisterAll(PutTable(reg, Head(table_configs)), Tail(table_configs))

\* Sqlite3DataModule(workdir, db_name, tables, auto_connect) on a new
\* directory, when the constructor returns: every descriptor registered, then
\* with auto_connect connect() and _initialize_tables().
Constructed(table_configs, auto_connect) ==
    LET reg == RegisterAll(<<>>, table_configs)
        made == CreateAll(EmptyFile, 0, reg, 0)
    IN /\ auto_connect => made.err = "ok"
       /\ tables = reg
       /\ table_accessors = NoTables
       /\ conn = IF auto_connect THEN 1 ELSE 0
       /\ opened = IF auto_connect THEN 1 ELSE 0
       /\ disk = IF auto_connect THEN made.db ELSE NoFile
       /\ work = disk
       /\ last_insert_rowid = 0
       /\ cursor = NewCursor
       /\ write_lock = 0
       /\ pc = NoCallers
       /\ call = NoCalls
       /\ result_set = <<>>

\* the constructor as the call that has just finished: it keeps the
\* arguments, the list as data_list and auto_connect as value
Construct(table_configs, auto_connect) ==
    /\ Constructed(table_configs, auto_connect)
    /\ ret = Ret("init", "", [NoArgs EXCEPT !.data_list = table_configs], "",
                 auto_connect, 0)

\* get_sqlite_db's engine: tables=[TASK_DB_CONFIG]
Init == \E auto_connect \in BOOLEAN : Construct(<<TASK_DB_CONFIG>>, auto_connect)

\* the calls one caller can make, with their arguments drawn from the sets of I
Registry(I) ==
    \/ \E cfg \in I.configs : register_table(cfg)
    \/ \E n \in I.names : getattr(n)

Lifecycle ==
    \/ connect
    \/ disconnect
    \/ drop_database

Admin(I) ==
    \/ initialize_tables
    \/ \E n \in I.names : drop_table(n)
    \/ vacuum
    \/ get_table_names
    \/ \E n \in I.names : table_exists(n)

Data(I) ==
    \/ \E n \in I.targets, d \in I.records, ig \in I.flags : insert(n, d, ig)
    \/ \E n \in I.targets, l \in I.lists, ig \in I.flags : insert_many(n, l, ig)
    \/ \E n \in I.targets, d \in I.updates, w \in I.wheres : update(n, d, w)
    \/ \E n \in I.targets, w \in I.wheres : delete(n, w)
    \/ \E n \in I.targets, w \in I.wheres : select(n, <<>>, w, "", <<>>, <<>>)
    \/ \E n \in I.targets, p \in I.pages :
          select(n, <<>>, <<>>, p.order_by, p.limit, p.offset)
    \/ \E n \in I.targets, w \in I.wheres : select_one(n, w)
    \/ \E n \in I.targets, w \in I.wheres : count(n, w)
    \/ \E n \in I.targets, w \in I.wheres : exists(n, w)
    \/ \E q \in I.raw : execute_raw(q[1], q[2])
    \/ \E q \in I.rawmany : executemany_raw(q[1], q[2])

Next == Registry(EngineInputs) \/ Lifecycle \/ Admin(EngineInputs) \/ Data(EngineInputs)

Spec == Init /\ [][Next]_vars


\* a connected engine and the rows of one table
InitCrud == Init /\ conn # 0

NextCrud == Admin(CrudInputs) \/ Data(CrudInputs)

SpecCrud == InitCrud /\ [][NextCrud]_vars

-----------------------------------------------------------------------------
(* The engine and its schema: construction, registration, initialization *)

\* the lists of descriptors an engine is constructed with
SuppliedLists == {<<TASK_DB_CONFIG>>, <<TASK_DB_CONFIG, NOTE_DB_CONFIG>>}

SchemaInputs ==
    [configs |-> {NOTE_DB_CONFIG, NOTE_V2_CONFIG, ORDER_DB_CONFIG},
     names |-> {"note"},
     targets |-> {"task", "note"},
     written |-> {"note"},
     records |-> {RecA}]

InitSchema ==
    \E auto_connect \in BOOLEAN, table_configs \in SuppliedLists :
        Construct(table_configs, auto_connect)

NextSchema ==
    \/ \E cfg \in SchemaInputs.configs : register_table(cfg)
    \/ \E n \in SchemaInputs.names : getattr(n)
    \/ connect
    \/ disconnect
    \/ drop_database
    \/ initialize_tables
    \/ \E n \in SchemaInputs.written : drop_table(n)
    \/ \E n \in SchemaInputs.written, d \in SchemaInputs.records : insert(n, d, FALSE)
    \/ \E n \in SchemaInputs.written : select(n, <<>>, <<>>, "", <<>>, <<>>)
    \/ \E n \in SchemaInputs.targets : count(n, <<>>)

SpecSchema == InitSchema /\ [][NextSchema]_vars

-----------------------------------------------------------------------------
(* A caller that keeps the result set of a select and reads it later *)

\* result = db.task.select(...): the caller keeps the QueryResult that the
\* last call, a select, returned
keep ==
    /\ ret.op = "select"
    /\ ret.raised = ""
    /\ result_set # <<ret.value>>
    /\ result_set' = <<ret.value>>
    /\ UNCHANGED <<conn, opened, disk, work, last_insert_rowid, cursor, tables,
                   table_accessors, write_lock, pc, call, ret>>

\* a method of the kept QueryResult has run: op is its name, index its argument
read(op, index, raised, value) ==
    /\ result_set # <<>>
    /\ result_set' = <<after_read(result_set[1])>>
    /\ ret' = Ret(op, "", [NoArgs EXCEPT !.data = <<index>>], raised, value, 0)
    /\ UNCHANGED <<conn, opened, disk, work, last_insert_rowid, cursor, tables,
                   table_accessors, write_lock, pc, call>>

\* the indexes a caller asks for, the first row being 0
Indexes == -1 .. MaxId

QueryResultOps == {"getitem", "len", "iter", "first", "all"}

Reads ==
    \/ \E i \in Indexes :
          read("getitem", i, getitem(result_set[1], i).raised,
               getitem(result_set[1], i).value)
    \/ read("len", 0, "", Len(result_set[1].rows))
    \/ read("iter", 0, "", to_dict_list(result_set[1]))
    \/ read("first", 0, "", first(result_set[1]))
    \/ read("all", 0, "", to_dict_list(result_set[1]))

ResultInputs ==
    [columns |-> {<<>>, <<"name">>},
     records |-> {RecA},
     wheres |-> {<< <<"id", "1">> >>},
     updates |-> {<< <<"name", "'b'">> >>}]

NextResult ==
    \/ \E c \in ResultInputs.columns : select("task", c, <<>>, "", <<>>, <<>>)
    \/ keep
    \/ Reads
    \/ \E d \in ResultInputs.records : insert("task", d, FALSE)
    \/ \E d \in ResultInputs.updates, w \in ResultInputs.wheres : update("task", d, w)
    \/ \E w \in ResultInputs.wheres : delete("task", w)
    \/ drop_table("task")
    \/ initialize_tables
    \/ disconnect
    \/ connect

SpecResult == InitCrud /\ [][NextResult]_vars

-----------------------------------------------------------------------------
(* Parallel callers on one engine: each call goes step by step, and the        *)
(* steps of different callers interleave                                      *)

Callers == 1..NumCallers

\* an engine whose every operation runs inside "with _write_lock"
TakesLockAlways(op) == TRUE

\* insert, insert_many and update run inside "with _write_lock"; delete,
\* select and count do not
TakesLock(op) == op \in {"insert", "insert_many", "update"}

WriteOps == {"insert", "insert_many", "update", "delete"}

\* the statement and the parameters of a call
SqlOf(c) ==
    CASE c.op = "insert" -> InsertSql(c.table, c.args.data, c.args.ignore)
      [] c.op = "insert_many" -> InsertSql(c.table, c.args.data_list[1], c.args.ignore)
      [] c.op = "update" -> UpdateSql(c.table, c.args.data, c.args.where)
      [] c.op = "delete" -> DeleteSql(c.table, c.args.where)
      [] c.op = "select" -> SelectSql(c.table, <<>>, c.args.where, "", <<>>, <<>>)
      [] c.op \in {"count", "exists"} -> CountSql(c.table, c.args.where)

ParamsOf(c) ==
    CASE c.op = "insert" -> Values(c.args.data)
      [] c.op = "insert_many" ->
            [i \in DOMAIN c.args.data_list |-> Values(c.args.data_list[i])]
      [] c.op = "update" -> Values(c.args.data) \o Values(c.args.where)
      [] c.op \in {"delete", "select", "count", "exists"} -> Values(c.args.where)

\* a caller enters a call: it builds its statement at once, or waits for the lock
Enter(t, op, table, args) ==
    /\ pc[t] = "idle"
    /\ pc' = [pc EXCEPT ![t] = IF TakesLock(op) THEN "acquire" ELSE "execute"]
    /\ call' = [call EXCEPT ![t] = Ret(op, table, args, "", NoValue, 0)]
    /\ UNCHANGED <<conn, opened, disk, work, last_insert_rowid, cursor, tables,
                   table_accessors, write_lock, ret, result_set>>

\* with _write_lock: the caller gets the lock when it is free; insert_many
\* of an empty list then returns at once
Acquire(t) ==
    /\ pc[t] = "acquire"
    /\ write_lock = 0
    /\ pc' = [pc EXCEPT ![t] = IF call[t].op = "insert_many" /\ call[t].args.data_list = <<>>
                               THEN "return" ELSE "execute"]
    /\ write_lock' = t
    /\ UNCHANGED <<conn, opened, disk, work, last_insert_rowid, cursor, tables,
                   table_accessors, call, ret, result_set>>

TypeError == "TypeError"

\* what a caller reads from the cursor cur that execute has returned:
\* lastrowid, rowcount, fetchall() with description, or fetchone()[0].  A
\* cursor whose last statement was no SELECT has no description and no row.
ReadCursor(cur, c) ==
    CASE c.op = "insert" ->
            [raised |-> "", value |-> [NoValue EXCEPT !.int = cur.lastrowid]]
      [] c.op \in {"insert_many", "update", "delete"} ->
            [raised |-> "", value |-> [NoValue EXCEPT !.int = cur.rowcount]]
      [] c.op = "select" ->
            IF cur.description = <<>>
            THEN [raised |-> TypeError, value |-> NoValue]
            ELSE [raised |-> "", value |-> [NoValue EXCEPT !.result = SelectResult(<<>>, cur)]]
      [] c.op = "count" ->
            IF cur.rows = <<>> THEN [raised |-> TypeError, value |-> NoValue]
            ELSE [raised |-> "", value |-> [NoValue EXCEPT !.int = IntOf(cur.rows[1][1])]]
      [] c.op = "exists" ->
            IF cur.rows = <<>> THEN [raised |-> TypeError, value |-> NoValue]
            ELSE [raised |-> "",
                  value |-> [NoValue EXCEPT !.bool = IntOf(cur.rows[1][1]) > 0]]

\* the shared cursor after a call has read its result: fetchall takes every
\* row that is left, fetchone the first one; reading rowcount or lastrowid
\* takes nothing
Fetched(cur, c) ==
    CASE c.op = "select" -> [cur EXCEPT !.rows = <<>>]
      [] c.op \in {"count", "exists"} ->
            [cur EXCEPT !.rows = IF cur.rows = <<>> THEN <<>> ELSE Tail(cur.rows)]
      [] OTHER -> cur

\* _ensure_connection, then the statement on the shared cursor; the call
\* record keeps as value what the cursor holds when the statement has run
Execute(t) ==
    /\ pc[t] = "execute"
    /\ IF ~ensure_connection(conn)
       THEN /\ pc' = [pc EXCEPT ![t] = "return"]
            /\ call' = [call EXCEPT ![t].raised = NotConnected]
            /\ UNCHANGED <<work, last_insert_rowid, cursor>>
       ELSE LET many == call[t].op = "insert_many"
                r == IF many
                     THEN RunMany(work, last_insert_rowid, SqlOf(call[t]), ParamsOf(call[t]), 0)
                     ELSE Run(work, last_insert_rowid, SqlOf(call[t]), ParamsOf(call[t]))
                cur == IF many THEN AfterExecutemany(cursor, r) ELSE AfterExecute(cursor, r)
            IN /\ pc' = [pc EXCEPT ![t] = IF r.err = "ok" THEN "commit" ELSE "rollback"]
               /\ work' = r.db
               /\ last_insert_rowid' = r.lastrowid
               /\ cursor' = cur
               /\ call' = [call EXCEPT
                              ![t].attempts = 1,
                              ![t].raised = IF r.err = "ok" THEN "" ELSE r.err,
                              ![t].value = IF r.err = "ok" THEN ReadCursor(cur, call[t]).value
                                           ELSE call[t].value]
    /\ UNCHANGED <<conn, opened, disk, tables, table_accessors, write_lock, ret, result_set>>

\* self._conn.commit(): whatever the connection holds becomes the file's content
Commit(t) ==
    /\ pc[t] = "commit"
    /\ pc' = [pc EXCEPT ![t] = "return"]
    /\ disk' = commit(work, disk)
    /\ UNCHANGED <<conn, opened, work, last_insert_rowid, cursor, tables,
                   table_accessors, write_lock, call, ret, result_set>>

\* self._conn.rollback(), before the error is raised again
Rollback(t) ==
    /\ pc[t] = "rollback"
    /\ pc' = [pc EXCEPT ![t] = "return"]
    /\ work' = rollback(work, disk)
    /\ UNCHANGED <<conn, opened, disk, last_insert_rowid, cursor, tables,
                   table_accessors, write_lock, call, ret, result_set>>

\* a lock that stays with the caller that took it
release_skipped(lock, t) == lock

\* leaving the with block: the lock is free again if t holds it
release(lock, t) == IF lock = t THEN 0 ELSE lock

\* the call returns or raises, and leaves the with block if it is in one; a
\* call whose statement ran reads its result from the shared cursor only now
Return(t) ==
    /\ pc[t] = "return"
    /\ pc' = [pc EXCEPT ![t] = "idle"]
    /\ ret' = IF call[t].raised = "" /\ call[t].attempts = 1
              THEN [call[t] EXCEPT !.raised = ReadCursor(cursor, call[t]).raised,
                                   !.value = ReadCursor(cursor, call[t]).value]
              ELSE call[t]
    /\ cursor' = IF call[t].raised = "" /\ call[t].attempts = 1
                 THEN Fetched(cursor, call[t])
                 ELSE cursor
    /\ write_lock' = release(write_lock, t)
    /\ UNCHANGED <<conn, opened, disk, work, last_insert_rowid, tables,
                   table_accessors, call, result_set>>

\* what the parallel callers call: records with their own id, a delete
\* without a where, which the store rejects, and one with
ConcInputs ==
    [records |-> {RecId},
     wheres |-> {<< <<"id", "1">> >>},
     deletes |-> {<<>>, << <<"id", "1">> >>},
     updates |-> {<< <<"name", "'b'">> >>},
     lists |-> {<<>>, <<RecId2, RecId>>}]

\* the calls that take the write lock
EntersLocked(t, I) ==
    \/ \E d \in I.records : Enter(t, "insert", "task", [NoArgs EXCEPT !.data = d])
    \/ \E l \in I.lists : Enter(t, "insert_many", "task", [NoArgs EXCEPT !.data_list = l])
    \/ \E d \in I.updates, w \in I.wheres :
          Enter(t, "update", "task", [NoArgs EXCEPT !.data = d, !.where = w])

Enters(t, I) ==
    \/ EntersLocked(t, I)
    \/ \E w \in I.deletes : Enter(t, "delete", "task", [NoArgs EXCEPT !.where = w])
    \/ \E w \in I.wheres : Enter(t, "select", "task", [NoArgs EXCEPT !.where = w])
    \/ \E w \in I.wheres : Enter(t, "count", "task", [NoArgs EXCEPT !.where = w])
    \/ \E w \in I.wheres : Enter(t, "exists", "task", [NoArgs EXCEPT !.where = w])

NextConc ==
    \E t \in Callers :
        \/ Enters(t, ConcInputs)
        \/ Acquire(t)
        \/ Execute(t)
        \/ Commit(t)
        \/ Rollback(t)
        \/ Return(t)

\* get_sqlite_db's engine, connected, before any of the callers has called
InitConc == Constructed(<<TASK_DB_CONFIG>>, TRUE) /\ ret = NoCall

SpecConc == InitConc /\ [][NextConc]_vars

-----------------------------------------------------------------------------
(* Parallel callers that write, on an engine that is connected or not *)

InitLock == \E auto_connect \in BOOLEAN :
                Constructed(<<TASK_DB_CONFIG>>, auto_connect) /\ ret = NoCall

NextLock ==
    \E t \in Callers :
        \/ EntersLocked(t, ConcInputs)
        \/ \E w \in ConcInputs.wheres :
              Enter(t, "delete", "task", [NoArgs EXCEPT !.where = w])
        \/ Acquire(t)
        \/ Execute(t)
        \/ Commit(t)
        \/ Rollback(t)
        \/ Return(t)

SpecLock == InitLock /\ [][NextLock]_vars

\* a step of caller t inside execute or at its return: of the steps of
\* NextLock exactly Execute(t), Commit(t), Rollback(t) and Return(t) are such
\* steps, and one of them is possible whenever pc[t] is one of these places
Runs(t) ==
    /\ pc[t] \in {"execute", "commit", "rollback", "return"}
    /\ \E p \in {"commit", "rollback", "return", "idle"} :
          p # pc[t] /\ pc' = [pc EXCEPT ![t] = p]

\* caller t gets the lock: of the steps of NextLock exactly Acquire(t)
Gets(t) ==
    /\ pc[t] = "acquire"
    /\ write_lock = 0
    /\ \E p \in {"execute", "return"} : pc' = [pc EXCEPT ![t] = p]

\* every thread that is inside a call goes on running, and a thread that
\* finds the lock free again and again gets it; callers need not call
FairLock == \A t \in Callers : WF_pc(Runs(t)) /\ SF_pc(Gets(t))

SpecLockFair == SpecLock /\ FairLock

-----------------------------------------------------------------------------
(* Properties of the engine through its life *)

\* the operations that hand a statement to the store
StatementOps ==
    {"insert", "insert_many", "update", "delete", "select", "select_one", "count",
     "exists", "execute", "executemany", "initialize_tables", "drop_table",
     "vacuum", "get_table_names", "table_exists"}

HasRows(db) == \E n \in DOMAIN db.tables : DOMAIN db.tables[n].rows # {}

\* C1, as stated: without a connection every statement-executing operation,
\* whatever its arguments, fails with the not-connected condition, hands nothing
\* to the store, and leaves the engine unconnected and the stored rows as they were.
C1_NotConnectedAlways ==
    [][(conn = 0 /\ ret'.op \in StatementOps)
         => /\ ret'.raised = NotConnected
            /\ ret'.attempts = 0
            /\ conn' = 0
            /\ disk' = disk]_vars

EmptyBatch(r) == r.op = "insert_many" /\ r.args.data_list = <<>>

\* C1, amended: the same, except that insert_many of an empty list returns 0
\* without looking at the connection; it too hands nothing to the store and
\* leaves the engine unconnected and the stored rows as they were.
C1_NotConnected ==
    [][(conn = 0 /\ ret'.op \in StatementOps)
         => /\ IF EmptyBatch(ret')
               THEN ret'.raised = "" /\ ret'.value = 0
               ELSE ret'.raised = NotConnected
            /\ ret'.attempts = 0
            /\ conn' = 0
            /\ disk' = disk]_vars

\* a statement-executing call has just failed for want of a connection, with
\* rows in the file
C1_Witness ==
    /\ conn = 0
    /\ ret.op \in StatementOps
    /\ ret.raised = NotConnected
    /\ HasRows(disk)

\* C6: disconnect from Connected commits what the connection holds and releases
\* the handle without error; a later connect sees exactly the committed tables
\* and rows, none lost, none duplicated, none changed.
C6_ReconnectKeepsRows ==
    [][/\ (ret'.op = "disconnect" /\ conn # 0)
            => /\ ret'.raised = ""
               /\ conn' = 0
               /\ disk' = work
       /\ (ret'.op = "connect" /\ conn = 0)
            => /\ ret'.raised = ""
               /\ conn' # 0
               /\ disk.exists => (work' = disk /\ disk' = disk)]_vars

\* the engine has been connected a second time and sees rows written before
C6_Witness ==
    /\ ret.op = "connect"
    /\ ~ret.value
    /\ opened >= 2
    /\ conn # 0
    /\ HasRows(work)

\* C7: connect while Connected and disconnect while Unconnected raise nothing
\* and change neither the handle, the connections opened, the registry, the
\* facade cache nor the stored rows.
C7_IdempotentLifecycle ==
    [][((ret'.op = "connect" /\ conn # 0) \/ (ret'.op = "disconnect" /\ conn = 0))
         => /\ ret'.raised = ""
            /\ UNCHANGED <<conn, opened, disk, work, last_insert_rowid, cursor, tables, table_accessors>>]_vars

\* connect has just been called on a connected engine that holds rows and a facade
C7_Witness ==
    /\ ret.op = "connect"
    /\ ret.value
    /\ HasRows(work)
    /\ DOMAIN table_accessors # {}

-----------------------------------------------------------------------------
(* Properties of the CRUD primitives *)

\* the store rejected the statement of the call
Rejected(r) == r.raised \notin {"", NotConnected, NotRegistered}

\* C3: when the store rejects the statement of a call on a connected engine,
\* the call raises after one attempt, the engine stays connected, and the table
\* contents, pending and committed, are those of before the call.
C3_RollbackOnFailure ==
    [][(conn # 0 /\ ret'.op \in StatementOps /\ Rejected(ret'))
         => /\ ret'.attempts = 1
            /\ conn' = conn
            /\ work' = work
            /\ disk' = disk
            /\ work' = disk']_vars

\* a batch has just failed at its second record, after its first was written
C3_Witness ==
    /\ ret.op = "insert_many"
    /\ ret.args.data_list = <<RecId2, RecId>>
    /\ ret.raised = "UNIQUE constraint failed"
    /\ "task" \in DOMAIN work.tables
    /\ 2 \notin DOMAIN work.tables["task"].rows
    /\ 1 \in DOMAIN work.tables["task"].rows

\* C4: update and delete with an empty where raise and change no row.
C4_EmptyWhereRejected ==
    [][(ret'.op \in {"update", "delete"} /\ ret'.args.where = <<>>)
         => /\ ret'.raised # ""
            /\ work' = work
            /\ disk' = disk]_vars

\* an update with an empty where has just been rejected by the store, with
\* rows in the table
C4_Witness ==
    /\ ret.op = "update"
    /\ ret.args.where = <<>>
    /\ ret.raised = "syntax error"
    /\ HasRows(work)

\* some record of the list has another key set than the first
Mismatched(data_list) ==
    \E i \in DOMAIN data_list : KeySet(data_list[i]) # KeySet(data_list[1])

\* C5: insert_many of a list in which a record's key set differs from the
\* first record's raises and writes no row.
C5_SchemaMismatch ==
    [][(ret'.op = "insert_many" /\ Mismatched(ret'.args.data_list))
         => /\ ret'.raised # ""
            /\ work' = work
            /\ disk' = disk]_vars

TaskPk == TASK_DB_CONFIG.primary_key

\* the record a select_one returned holds the primary key id and every
\* column of data with the value conv gives it
RoundTrip(found, id, data, conv(_, _)) ==
    /\ Len(found) = 1
    /\ found[1][TaskPk] = IntLit[id]
    /\ \A i \in DOMAIN data :
          data[i][1] # TaskPk
            => /\ data[i][1] \in DOMAIN found[1]
               /\ found[1][data[i][1]] = conv(data[i][1], data[i][2])

AsInserted(c, v) == v
AsStored(c, v) == Affinity(Get(TASK_DB_CONFIG.columns, c), v)

\* the last call was an insert of a non-empty record that returned an id
Inserted(r) ==
    /\ r.op = "insert"
    /\ r.raised = ""
    /\ r.args.data # <<>>
    /\ r.value \in 1..MaxId

\* the next call is select_one(where={primary key: the id r returned})
SelectsBack(r, r2) ==
    /\ r2.op = "select_one"
    /\ r2.table = r.table
    /\ r2.args.where = << <<TaskPk, IntLit[r.value]>> >>

\* C10, as stated: select_one by the id an insert returned gives back the
\* inserted values, and two successful inserts never return the same id.
C10_RoundTripDistinct ==
    [][Inserted(ret)
         => /\ SelectsBack(ret, ret')
                => RoundTrip(ret'.value, ret.value, ret.args.data, AsInserted)
            /\ (ret'.op = "insert" /\ ret'.raised = "" /\ ret'.table = ret.table)
                => ret'.value # ret.value]_vars

\* C10, amended: after an insert without ignore_conflict, select_one by the
\* returned id gives back the inserted values as the store converts them to
\* the declared column types; the id such an insert returns is the id of no
\* row that was in the table before it, and of a row that is in it after.
C10_RoundTrip ==
    [][/\ (Inserted(ret) /\ ~ret.args.ignore /\ SelectsBack(ret, ret'))
            => RoundTrip(ret'.value, ret.value, ret.args.data, AsStored)
       /\ (ret'.op = "insert" /\ ret'.raised = "" /\ ~ret'.args.ignore)
            => /\ ret'.value \notin DOMAIN work.tables[ret'.table].rows
               /\ ret'.value \in DOMAIN work'.tables[ret'.table].rows]_vars

\* select_one has just given back the second row by the id its insert returned
C10_Witness ==
    /\ ret.op = "select_one"
    /\ ret.raised = ""
    /\ ret.args.where = << <<TaskPk, "2">> >>
    /\ Len(ret.value) = 1
    /\ ret.value[1]["id"] = "2"
    /\ ret.value[1]["name"] = "'1'"


\* the rows of a table of the pending content, by rowid
Rows(db, t) == db.tables[t].rows

\* the rows of before are the rows of after, except those with a rowid of S
SameRowsExcept(db, db2, t, S) ==
    \A id \in (DOMAIN Rows(db, t) \cup DOMAIN Rows(db2, t)) \ S :
        /\ id \in DOMAIN Rows(db, t)
        /\ id \in DOMAIN Rows(db2, t)
        /\ Rows(db2, t)[id] = Rows(db, t)[id]

Added(db, db2, t) == DOMAIN Rows(db2, t) \ DOMAIN Rows(db, t)

\* every record of the list names the primary key
AllKeyed(data_list) ==
    \A i \in DOMAIN data_list : TaskPk \in KeySet(data_list[i])

\* a batch of records of one key set has just returned
BatchDone(r) ==
    /\ r.op = "insert_many"
    /\ r.raised = ""
    /\ r.args.data_list # <<>>
    /\ ~Mismatched(r.args.data_list)

\* C11: insert_many of N >= 1 records of one key set that returns adds as many
\* rows as it returns and changes no other row; without ignore_conflict it
\* returns N; the same keyed batch inserted with ignore_conflict right after
\* it was written returns 0 and adds no row.
C11_BatchCount ==
    [][/\ BatchDone(ret')
            => /\ ret'.value = Cardinality(Added(work, work', ret'.table))
               /\ SameRowsExcept(work, work', ret'.table, Added(work, work', ret'.table))
               /\ ~ret'.args.ignore => ret'.value = Len(ret'.args.data_list)
               /\ disk' = work'
       /\ (/\ BatchDone(ret) /\ BatchDone(ret')
           /\ ret'.args.data_list = ret.args.data_list
           /\ AllKeyed(ret.args.data_list)
           /\ ret'.args.ignore)
            => /\ ret'.value = 0
               /\ work' = work]_vars

\* the keyed batch has just been inserted a second time, with ignore_conflict,
\* into the table that holds its two rows
C11_Witness ==
    /\ BatchDone(ret)
    /\ ret.args.data_list = <<RecId2, RecId>>
    /\ ret.args.ignore
    /\ ret.value = 0
    /\ DOMAIN Rows(work, "task") = {1, 2}

\* the record names a primary key that a row of the table has
Conflicts(db, t, data) ==
    /\ t \in DOMAIN db.tables
    /\ TaskPk \in KeySet(data)
    /\ IsInt(Affinity("INTEGER", Get(data, TaskPk)))
    /\ IntOf(Affinity("INTEGER", Get(data, TaskPk))) \in DOMAIN Rows(db, t)

\* C12: insert of a record whose primary key a row already has returns
\* without error under ignore_conflict and raises without it; either way the
\* table, pending and committed, is as it was.
C12_ConflictingInsert ==
    [][(ret'.op = "insert" /\ Conflicts(work, ret'.table, ret'.args.data))
         => /\ IF ret'.args.ignore THEN ret'.raised = ""
               ELSE ret'.raised = "UNIQUE constraint failed"
            /\ work' = work
            /\ disk' = disk]_vars

\* a conflicting insert has just been swallowed under ignore_conflict; the
\* row it met keeps another name than the record's
C12_Witness ==
    /\ ret.op = "insert"
    /\ ret.args.ignore
    /\ ret.raised = ""
    /\ ret.args.data = RecId
    /\ 1 \in DOMAIN Rows(work, "task")
    /\ Rows(work, "task")[1]["name"] # "'b'"

\* the rows a where of equalities selects
Hit(db, t, where) == Matching(db.tables[t], Keys(where), Values(where))

\* an update with a non-empty where has just returned
Updated(r) ==
    /\ r.op = "update"
    /\ r.raised = ""
    /\ r.args.where # <<>>

\* the rows of S hold, in every column of data, the value conv gives it
Shows(db, t, S, data, conv(_, _)) ==
    \A id \in S : \A i \in DOMAIN data :
        Cell(db.tables[t], id, data[i][1]) = conv(data[i][1], data[i][2])

\* the result set holds, in every row and every column of data, the value conv
\* gives it
ShowsBack(qr, data, conv(_, _)) ==
    \A k \in DOMAIN qr.rows : \A i \in DOMAIN data :
        Labeled(qr.columns, qr.rows[k])[data[i][1]] = conv(data[i][1], data[i][2])

\* C13, as stated: update with a non-empty where that matches K rows returns K,
\* and a select afterwards shows each of them with every column of data equal
\* to the value given.
C13_UpdateCountValues ==
    [][/\ Updated(ret')
            => /\ ret'.value = Cardinality(Hit(work, ret'.table, ret'.args.where))
               /\ Shows(work', ret'.table, Hit(work, ret'.table, ret'.args.where),
                        ret'.args.data, AsInserted)
       /\ (/\ Updated(ret) /\ ret'.op = "select" /\ ret'.raised = ""
           /\ ret'.args.where = ret.args.where
           /\ Keys(ret.args.where) = <<TaskPk>>)
            => /\ Len(ret'.value.rows) = ret.value
               /\ ShowsBack(ret'.value, ret.args.data, AsInserted)]_vars

\* C13, amended: the same, with every column of data equal to the value given
\* as the store converts it to the declared type of the column; the rows that
\* did not match are left as they were.
C13_UpdateCount ==
    [][/\ Updated(ret')
            => /\ ret'.value = Cardinality(Hit(work, ret'.table, ret'.args.where))
               /\ Shows(work', ret'.table, Hit(work, ret'.table, ret'.args.where),
                        ret'.args.data, AsStored)
               /\ SameRowsExcept(work, work', ret'.table,
                                 Hit(work, ret'.table, ret'.args.where))
               /\ DOMAIN Rows(work', ret'.table) = DOMAIN Rows(work, ret'.table)
               /\ disk' = work'
       /\ (/\ Updated(ret) /\ ret'.op = "select" /\ ret'.raised = ""
           /\ ret'.args.where = ret.args.where
           /\ Keys(ret.args.where) = <<TaskPk>>)
            => /\ Len(ret'.value.rows) = ret.value
               /\ ShowsBack(ret'.value, ret.args.data, AsStored)]_vars

\* an update has just changed two rows at once, giving an integer for the
\* VARCHAR column
C13_Witness ==
    /\ Updated(ret)
    /\ ret.value = 2
    /\ ret.args.data = RecInt
    /\ \A id \in {1, 2} : Rows(work, "task")[id]["name"] = "'1'"

\* C14: delete with a non-empty where returns the number of rows that matched
\* and removes those rows and no other; exists and count with the same where
\* right after it find nothing; exists is count > 0.
C14_DeleteCountExists ==
    [][/\ (ret'.op = "delete" /\ ret'.raised = "" /\ ret'.args.where # <<>>)
            => /\ ret'.value = Cardinality(Hit(work, ret'.table, ret'.args.where))
               /\ DOMAIN Rows(work', ret'.table)
                    = DOMAIN Rows(work, ret'.table) \ Hit(work, ret'.table, ret'.args.where)
               /\ SameRowsExcept(work, work', ret'.table,
                                 Hit(work, ret'.table, ret'.args.where))
               /\ Hit(work', ret'.table, ret'.args.where) = {}
               /\ disk' = work'
       /\ (/\ ret.op = "delete" /\ ret.raised = "" /\ ret.args.where # <<>>
           /\ ret'.op \in {"count", "exists"} /\ ret'.raised = ""
           /\ ret'.args.where = ret.args.where)
            => IF ret'.op = "count" THEN ret'.value = 0 ELSE ret'.value = FALSE
       /\ (ret'.op = "exists" /\ ret'.raised = "")
            => ret'.value = (Cardinality(Hit(work, ret'.table, ret'.args.where)) > 0)
       /\ (ret'.op = "count" /\ ret'.raised = "" /\ ret'.args.where # <<>>)
            => ret'.value = Cardinality(Hit(work, ret'.table, ret'.args.where))
       /\ (/\ ret.op = "count" /\ ret.raised = ""
           /\ ret'.op = "exists" /\ ret'.raised = ""
           /\ ret'.args.where = ret.args.where)
            => ret'.value = (ret.value > 0)]_vars

\* a delete has just removed two rows at once and left none
C14_Witness ==
    /\ ret.op = "delete"
    /\ ret.raised = ""
    /\ ret.value = 2
    /\ ret.args.where = << <<"name", "'a'">> >>
    /\ DOMAIN Rows(work, "task") = {}

\* C19: drop_database raises nothing, whether connected or not; after it the
\* engine is unconnected and the file is absent, what was pending having been
\* committed before; a connect after it finds no table and no row.
C19_DropDatabase ==
    [][/\ ret'.op = "drop_database"
            => /\ ret'.raised = ""
               /\ conn' = 0
               /\ ~disk'.exists
               /\ tables' = tables
               /\ table_accessors' = table_accessors
       /\ (ret'.op = "connect" /\ conn = 0 /\ ~disk.exists)
            => /\ ret'.raised = ""
               /\ conn' # 0
               /\ work'.tables = NoTables
               /\ disk'.tables = NoTables]_vars

\* drop_database has just removed the file of an engine that was unconnected
\* after its second connection
C19_Witness ==
    /\ ret.op = "drop_database"
    /\ ret.value = [connected |-> FALSE, removed |-> TRUE]
    /\ conn = 0
    /\ ~disk.exists
    /\ opened >= 2

-----------------------------------------------------------------------------
(* Properties of the schema *)

\* every table of db is in db2 as it is in db
KeepsTables(db, db2) ==
    \A n \in DOMAIN db.tables :
        /\ n \in DOMAIN db2.tables
        /\ db2.tables[n] = db.tables[n]

\* C15: initialize_tables on a connected engine whose registered tables all
\* exist raises nothing and changes nothing, pending or committed; run at any
\* time, it leaves every table that exists, and every row of it, as it was.
C15_InitializeIdempotent ==
    [][(ret'.op = "initialize_tables" /\ conn # 0)
         => /\ KeepsTables(work, work')
            /\ KeepsTables(disk, disk')
            /\ RegNames \subseteq DOMAIN work.tables
                 => /\ ret'.raised = ""
                    /\ work' = work
                    /\ disk' = disk]_vars

\* initialize_tables has just run a second time over two tables, one of them
\* with rows
C15_Witness ==
    /\ ret.op = "initialize_tables"
    /\ ret.raised = ""
    /\ ret.attempts = 2
    /\ conn # 0
    /\ DOMAIN work.tables = {"task", "note"}
    /\ DOMAIN Rows(work, "note") # {}

\* the place in the registry of the first descriptor whose CREATE the store
\* rejects
FirstRejected(reg) ==
    CHOOSE i \in DOMAIN reg :
        /\ reg[i][1] \in Keywords
        /\ \A j \in DOMAIN reg : reg[j][1] \in Keywords => i <= j

\* C16: when the CREATE of the i-th registered descriptor fails,
\* initialize_tables raises after i statements and no table created earlier
\* in the call is committed.
C16_FailedInitCommitsNothing ==
    [][(ret'.op = "initialize_tables" /\ Rejected(ret'))
         => /\ ret'.attempts = FirstRejected(tables)
            /\ disk' = disk]_vars

\* the supplied descriptors are the registry: every name once, each with the
\* last descriptor supplied under it
SuppliedRegistered(table_configs, reg) ==
    /\ {reg[i][1] : i \in DOMAIN reg} = {table_configs[i].name : i \in DOMAIN table_configs}
    /\ \A i, j \in DOMAIN reg : reg[i][1] = reg[j][1] => i = j
    /\ \A i \in DOMAIN reg :
          \E k \in DOMAIN table_configs :
              /\ reg[i][2] = table_configs[k]
              /\ \A l \in DOMAIN table_configs :
                    table_configs[l].name = reg[i][1] => l <= k

\* the calls a facade makes on the store
FacadeOps ==
    {"insert", "insert_many", "update", "delete", "select", "select_one", "count",
     "exists"}

\* C17: an engine constructed with auto-connect is connected and has, pending
\* and committed, the table of every supplied descriptor, and the next facade
\* call on one of them is refused neither for want of a connection nor for want
\* of the table; constructed without auto-connect it is unconnected, has the
\* same registry and no file.
C17_Construction ==
    [][ret.op = "init"
         => /\ SuppliedRegistered(ret.args.data_list, tables)
            /\ IF ret.value
               THEN /\ conn # 0
                    /\ \A n \in RegNames :
                          n \in DOMAIN work.tables /\ n \in DOMAIN disk.tables
                    /\ (ret'.op \in FacadeOps /\ ret'.table \in RegNames)
                          => ret'.raised = ""
               ELSE /\ conn = 0
                    /\ ~disk.exists
                    /\ work.tables = NoTables]_vars

\* an engine has just been constructed with auto-connect over two descriptors
C17_Witness ==
    /\ ret.op = "init"
    /\ ret.value
    /\ ret.args.data_list = <<TASK_DB_CONFIG, NOTE_DB_CONFIG>>
    /\ conn = 1
    /\ DOMAIN disk.tables = {"task", "note"}

-----------------------------------------------------------------------------
(* Properties of the result set *)

\* C20: once a caller keeps a result set, no call on the engine and no method
\* of the result set changes its columns or its rows: it changes only when
\* the caller keeps the result set of another select; the same method called
\* twice gives the same; all gives the rows kept, labeled by the columns kept.
C20_ResultSnapshot ==
    [][/\ result_set # <<>>
            => \/ result_set' = result_set
               \/ /\ ret.op = "select" /\ ret'.op = "select"
                  /\ result_set' = <<ret.value>>
       /\ (/\ ret'.op \in QueryResultOps /\ ret.op = ret'.op
           /\ ret.args.data = ret'.args.data)
            => /\ ret'.value = ret.value
               /\ ret'.raised = ret.raised
       /\ ret'.op = "all"
            => /\ Len(ret'.value) = Len(result_set[1].rows)
               /\ \A i \in DOMAIN ret'.value :
                     \A j \in DOMAIN result_set[1].columns :
                         ret'.value[i][result_set[1].columns[j]] = result_set[1].rows[i][j]]_vars

\* the kept result set holds a row that the table, dropped since, no longer has
C20_Witness ==
    /\ result_set # <<>>
    /\ Len(result_set[1].rows) = 2
    /\ ret.op = "all"
    /\ ret.value[1]["name"] = "'a'"
    /\ "task" \notin DOMAIN work.tables

-----------------------------------------------------------------------------
(* Properties of parallel callers *)

\* the caller has run its write statement and has not yet committed it or
\* rolled it back
InFlight(t) == call[t].op \in WriteOps /\ pc[t] \in {"commit", "rollback"}

\* C2: at every instant at most one caller is between the execution of its
\* write statement and the commit or rollback of it.
C2_OneWriteInFlight ==
    \A t1, t2 \in Callers : (InFlight(t1) /\ InFlight(t2)) => t1 = t2

-----------------------------------------------------------------------------
(* QueryResult: indexed access, iteration, first and all *)

\* a method of the kept result set has just run
ReadStep(op) == ret'.op = op /\ result_set # <<>> /\ result_set' = result_set

\* rec labels the row: its keys are the column names, and each name has the
\* row's value at the position of the name
Labels(rec, columns, row) ==
    /\ DOMAIN rec = Range(columns)
    /\ \A j \in DOMAIN columns : rec[columns[j]] = row[j]

\* C21: indexed access at i on a result set of n rows returns the labeled
\* record of row i when 0 <= i <= n-1, and fails with the out-of-range error
\* for every other integer i, negative ones included; on an empty result set
\* every index fails.
C21_IndexedAccess ==
    [][ReadStep("getitem") =>
          LET qr == result_set[1]
              n == Len(qr.rows)
              i == ret'.args.data[1]
          IN IF 0 <= i /\ i <= n - 1
             THEN /\ ret'.raised = ""
                  /\ Len(ret'.value) = 1
                  /\ Labels(ret'.value[1], qr.columns, qr.rows[i + 1])
             ELSE ret'.raised = IndexError]_vars

\* index -1 on a result set of two rows has failed
C21_Witness ==
    /\ ret.op = "getitem"
    /\ ret.args.data = <<-1>>
    /\ ret.raised = IndexError
    /\ result_set # <<>>
    /\ Len(result_set[1].rows) = 2

\* C22: iteration and all() both yield the n labeled records that indexed
\* access returns at 0..n-1, in row order; iterating again yields the same;
\* first() returns the record of index 0 when n > 0 and None, without an
\* error, when n = 0.
C22_IterationAllFirst ==
    [][LET qr == result_set[1]
       IN /\ (ReadStep("iter") \/ ReadStep("all")) =>
                /\ ret'.raised = ""
                /\ Len(ret'.value) = Len(qr.rows)
                /\ \A i \in DOMAIN qr.rows :
                      Labels(ret'.value[i], qr.columns, qr.rows[i])
                /\ ret.op = "iter" /\ ret'.op = "iter" => ret'.value = ret.value
          /\ ReadStep("first") =>
                /\ ret'.raised = ""
                /\ IF Len(qr.rows) > 0
                   THEN /\ Len(ret'.value) = 1
                        /\ Labels(ret'.value[1], qr.columns, qr.rows[1])
                   ELSE ret'.value = <<>>]_vars

\* all() has returned the two records of a result set of two rows, which differ
C22_Witness ==
    /\ ret.op = "all"
    /\ result_set # <<>>
    /\ Len(ret.value) = 2
    /\ ret.value[1] # ret.value[2]

-----------------------------------------------------------------------------
(* Counting and paging *)

\* the rows of T at the rowids of the sequence ids, as SELECT * shows them
RowsAt(T, ids) ==
    [i \in DOMAIN ids |-> [j \in DOMAIN ColNames(T) |-> Cell(T, ids[i], ColNames(T)[j])]]

\* the rowids of T in the order of e
InOrder(T, e) ==
    LET up == Sorted(DOMAIN T.rows)
    IN IF e = "id DESC" THEN [i \in DOMAIN up |-> up[Len(up) + 1 - i]] ELSE up

\* a call on the table task, which exists, without a where
OnTask(op) ==
    /\ ret'.op = op
    /\ ret'.table = "task"
    /\ ret'.args.where = <<>>
    /\ "task" \in DOMAIN work.tables

\* C23: on a table holding R rows count() returns R, and
\* select(order_by=e, limit=n, offset=m) returns exactly the rows at the
\* positions m .. min(m+n, R)-1 of the sequence ordered by e; select with an
\* offset and no limit succeeds and returns the rows after the first m.
C23_CountAndPaging ==
    [][LET T == work.tables["task"]
           R == Cardinality(DOMAIN T.rows)
           a == ret'.args
       IN /\ OnTask("count") => ret'.raised = "" /\ ret'.value = R
          /\ OnTask("select") /\ a.limit # <<>> /\ a.offset # <<>> =>
                /\ ret'.raised = ""
                /\ ret'.value.rows =
                      RowsAt(T, SubSeq(InOrder(T, a.order_by), a.offset[1] + 1,
                                       Min2(a.offset[1] + a.limit[1], R)))
          /\ OnTask("select") /\ a.limit = <<>> /\ a.offset # <<>> =>
                /\ ret'.raised = ""
                /\ ret'.value.rows =
                      RowsAt(T, SubSeq(InOrder(T, a.order_by), a.offset[1] + 1, R))]_vars

\* the part of C23 that holds: count, and select with a limit
C23_PagingWithLimit ==
    [][LET T == work.tables["task"]
           R == Cardinality(DOMAIN T.rows)
           a == ret'.args
       IN /\ OnTask("count") => ret'.raised = "" /\ ret'.value = R
          /\ OnTask("select") /\ a.limit # <<>> /\ a.offset # <<>> =>
                /\ ret'.raised = ""
                /\ ret'.value.rows =
                      RowsAt(T, SubSeq(InOrder(T, a.order_by), a.offset[1] + 1,
                                       Min2(a.offset[1] + a.limit[1], R)))
          /\ OnTask("select") /\ a.limit = <<>> /\ a.offset # <<>> =>
                ret'.raised = "syntax error"]_vars

\* the second of two rows in falling order has been selected
C23_PagingWitness ==
    /\ ret.op = "select"
    /\ ret.args.order_by = "id DESC"
    /\ ret.args.limit = <<1>>
    /\ ret.args.offset = <<1>>
    /\ ret.raised = ""
    /\ Len(ret.value.rows) = 1
    /\ ret.value.rows[1][1] = "1"

-----------------------------------------------------------------------------
(* A descriptor and the statement it gives *)

MaxCols == 3

\* the columns a descriptor declares: up to MaxCols of these, in any order
ColumnPool ==
    LET all == << <<"id", "INTEGER">>, <<"name", "VARCHAR">>, <<"priority", "INTEGER">>,
                  <<"status", "INTEGER">> >>
    IN {all[i] : i \in 1..Min2(MaxCols, Len(all))}

ColumnLists ==
    {c \in UNION {[1..n -> ColumnPool] : n \in 0..MaxCols} :
        \A i, j \in DOMAIN c : c[i][1] = c[j][1] => i = j}

Descriptors ==
    {TableConfig(n, c, k, a) : n \in {"task", "note"}, c \in ColumnLists,
                               k \in {"id", "name"}, a \in BOOLEAN}

\* an engine constructed, without connecting, on one descriptor
InitDescriptor == \E cfg \in Descriptors : Construct(<<cfg>>, FALSE)

\* table_config.get_create_sql() on the registered descriptor of the name
call_get_create_sql(name) ==
    /\ name \in RegNames
    /\ ret' = Ret("get_create_sql", name, [NoArgs EXCEPT !.data_list = <<RegGet(name)>>],
                  "", get_create_sql(RegGet(name)), 0)
    /\ UNCHANGED <<conn, opened, disk, work, last_insert_rowid, cursor, tables,
                   table_accessors>>
    /\ Sequential

NextDescriptor == \E name \in {"task", "note"} : call_get_create_sql(name)

SpecDescriptor == InitDescriptor /\ [][NextDescriptor]_vars

\* C24: the create statement of a descriptor is create-if-absent on the
\* descriptor's table, names the primary key exactly once and first, as an
\* auto-incrementing integer when auto_increment is set and otherwise with the
\* type declared for it in columns (INTEGER when columns does not declare it),
\* then every other declared column exactly once, in declaration order, with
\* its declared type; producing it leaves the descriptor as it was.
C24_CreateStatement ==
    [][ret'.op = "get_create_sql" =>
          LET cfg == RegGet(ret'.table)
              st == ret'.value
              pk == st.coldefs[1]
              others == SelectSeq(cfg.columns, LAMBDA c : c[1] # cfg.primary_key)
          IN /\ tables' = tables
             /\ ret'.args.data_list = <<cfg>>
             /\ st.verb = "CREATE TABLE IF NOT EXISTS"
             /\ st.table = cfg.name
             /\ Len(st.coldefs) = 1 + Len(others)
             /\ pk.name = cfg.primary_key
             /\ pk.pk
             /\ pk.autoinc = cfg.auto_increment
             /\ pk.type = IF cfg.auto_increment THEN "INTEGER"
                          ELSE IF \E i \in DOMAIN cfg.columns : cfg.columns[i][1] = cfg.primary_key
                               THEN cfg.columns[CHOOSE i \in DOMAIN cfg.columns :
                                                    cfg.columns[i][1] = cfg.primary_key][2]
                               ELSE "INTEGER"
             /\ \A i \in DOMAIN others :
                   /\ st.coldefs[i + 1].name = others[i][1]
                   /\ st.coldefs[i + 1].type = others[i][2]
                   /\ ~st.coldefs[i + 1].pk
                   /\ ~st.coldefs[i + 1].autoinc]_vars

\* the statement of a descriptor whose primary key, declared as text and not
\* auto-incrementing, is not the first declared column
C24_Witness ==
    /\ ret.op = "get_create_sql"
    /\ ~RegGet(ret.table).auto_increment
    /\ RegGet(ret.table).primary_key = "name"
    /\ Len(RegGet(ret.table).columns) = 3
    /\ RegGet(ret.table).columns[2][1] = "name"
    /\ ret.value.coldefs[1].type = "VARCHAR"

-----------------------------------------------------------------------------
(* Two tables with rows, each used through its facade *)

FrameInputs ==
    [targets |-> {"task", "note"},
     records |-> {<<"task", RecA>>, <<"note", RecId2>>},
     wheres |-> {<< <<"name", "'a'">> >>, << <<"name", "'a'">>, <<"id", "2">> >>},
     reads |-> {<< <<"name", "'a'">> >>},
     updates |-> {<< <<"name", "'b'">> >>, RecPrio}]

InitFrame == Construct(<<TASK_DB_CONFIG, NOTE_DB_CONFIG>>, TRUE)

\* db.<name>.<method>(...): the facade hands its table name to the engine
NextFrame ==
    \/ \E q \in FrameInputs.records : insert(q[1], q[2], FALSE)
    \/ \E n \in FrameInputs.targets :
          \/ \E d \in FrameInputs.updates, w \in FrameInputs.wheres : update(n, d, w)
          \/ \E w \in FrameInputs.wheres : delete(n, w)
          \/ \E w \in FrameInputs.reads : select(n, <<>>, w, "", <<>>, <<>>)
          \/ \E w \in FrameInputs.reads : select_one(n, w)
          \/ \E w \in FrameInputs.reads : count(n, w)
          \/ \E w \in FrameInputs.reads : exists(n, w)

SpecFrame == InitFrame /\ [][NextFrame]_vars

\* the rowids of table t whose row satisfies every pair of where
Satisfying(db, t, where) ==
    LET T == db.tables[t]
    IN {id \in DOMAIN T.rows :
           \A i \in DOMAIN where :
               LET c == where[i][1]
                   v == where[i][2]
                   def == T.coldefs[CHOOSE j \in DOMAIN T.coldefs : T.coldefs[j].name = c]
                   have == IF def.pk THEN IntLit[id] ELSE T.rows[id][c]
               IN v # NULL /\ have = Affinity(def.type, v)}

\* from db to db2 nothing changed but rows of table t with a rowid of S, and of
\* those only (if they are still there) columns named in data
OnlyChanged(db, db2, t, S, data) ==
    /\ DOMAIN db2.tables = DOMAIN db.tables
    /\ \A u \in DOMAIN db.tables \ {t} : db2.tables[u] = db.tables[u]
    /\ DOMAIN db2.tables[t].rows \subseteq DOMAIN db.tables[t].rows
    /\ \A id \in DOMAIN db.tables[t].rows \ S :
          /\ id \in DOMAIN db2.tables[t].rows
          /\ db2.tables[t].rows[id] = db.tables[t].rows[id]
    /\ \A id \in S \cap DOMAIN db2.tables[t].rows :
          \A c \in DOMAIN db.tables[t].rows[id] \ KeySet(data) :
              db2.tables[t].rows[id][c] = db.tables[t].rows[id][c]

\* C30: a successful update or delete through a facade changes only rows of
\* the facade's table that satisfy every pair of its where: the other rows,
\* the columns of matched rows that data does not name, and every row of every
\* other table stay as they were; select, select_one, count and exists change
\* no row of any table.
C30_Frame ==
    [][LET t == ret'.table
           w == ret'.args.where
       IN /\ ret'.op \in {"update", "delete"} /\ ret'.raised = "" =>
                LET S == Satisfying(work, t, w)
                    data == IF ret'.op = "update" THEN ret'.args.data ELSE <<>>
                IN /\ OnlyChanged(work, work', t, S, data)
                   /\ OnlyChanged(disk, disk', t, S, data)
          /\ ret'.op \in {"select", "select_one", "count", "exists"} =>
                work' = work /\ disk' = disk]_vars

\* an update of name on the table task has changed one of its two rows, which
\* has a priority, while the table note has a row that satisfies the where too
C30_Witness ==
    /\ ret.op = "update"
    /\ ret.table = "task"
    /\ ret.raised = ""
    /\ ret.value = 1
    /\ ret.args.data = << <<"name", "'b'">> >>
    /\ ret.args.where = << <<"name", "'a'">>, <<"id", "2">> >>
    /\ Cardinality(DOMAIN work.tables["task"].rows) = 2
    /\ work.tables["task"].rows[2]["priority"] = "1"
    /\ work.tables["task"].rows[1]["name"] = "'a'"
    /\ DOMAIN work.tables["note"].rows = {2}
    /\ work.tables["note"].rows[2]["name"] = "'a'"

-----------------------------------------------------------------------------
(* Parallel callers: the write lock *)

\* the lock is free or with a caller that is inside the with block of insert,
\* insert_many or update
LockHeldInside ==
    /\ write_lock \in {0} \cup Callers
    /\ \A t \in Callers :
          write_lock = t =>
              /\ TakesLock(call[t].op)
              /\ pc[t] \in {"execute", "commit", "rollback", "return"}

-----------------------------------------------------------------------------
(* Parallel callers: what the lock does not cover *)

LockFreeOps == {"select", "count", "exists", "delete"}

\* the call caller t is in during a step: the one it enters, or the one it is in
CallOf(t) == IF pc[t] = "idle" THEN call'[t] ELSE call[t]

\* C26: select, count, exists and delete never acquire the write lock: a
\* caller in one of them never waits for the lock and never holds it, and
\* none of its steps, from the start of the call to its return, takes or
\* frees the lock, whoever holds it.
C26_LockFreeCalls ==
    [][\A t \in Callers :
          (pc'[t] # pc[t] /\ CallOf(t).op \in LockFreeOps) =>
              /\ pc'[t] # "acquire"
              /\ write_lock # t
              /\ write_lock' = write_lock]_vars

\* caller 1 holds the lock, its insert of row 1 executed and not yet
\* committed, and a delete of caller 2 has removed that row and returned
C26_Witness ==
    /\ write_lock = 1
    /\ pc[1] = "commit"
    /\ call[1].op = "insert"
    /\ 1 \notin DOMAIN work.tables["task"].rows
    /\ pc[2] = "idle"
    /\ ret.op = "delete"
    /\ ret.raised = ""
    /\ ret.value.int = 1

\* C27: a write that is going to report success keeps its effect: while a
\* caller is between the execution of its insert, insert_many or update and
\* the commit of it, the rollback of another caller's failed call discards
\* nothing.
C27_WritesSurviveRollback ==
    [][\A t, u \in Callers :
          (/\ t # u
           /\ pc[t] = "commit"
           /\ TakesLock(call[t].op)
           /\ pc[u] = "rollback"
           /\ pc'[u] = "return") => work' = work]_vars

\* the rows the connection holds and the file does not
Pending(t) == DOMAIN work.tables[t].rows \ DOMAIN disk.tables[t].rows

\* C28: insert_many without ignore_conflict is all-or-nothing: when a record
\* of the batch has been rejected, no step of any caller commits a row that
\* the batch wrote before it.
C28_BatchAllOrNothing ==
    [][\A t \in Callers :
          (/\ pc[t] = "rollback"
           /\ call[t].op = "insert_many"
           /\ ~call[t].args.ignore
           /\ "task" \in DOMAIN disk'.tables) =>
              \A id \in Pending("task") : id \notin DOMAIN disk'.tables["task"].rows]_vars

\* C29: the result of a call is the one its own statement produced: what the
\* call returns is what the cursor held when the call's statement had run.
C29_OwnResult ==
    [][\A t \in Callers :
          (/\ pc[t] = "return"
           /\ pc'[t] = "idle"
           /\ call[t].raised = ""
           /\ call[t].attempts = 1) =>
              /\ ret'.raised = ""
              /\ ret'.value = call[t].value]_vars

====
